---- MODULE Spec2Model ----
(***************************************************************************)
(* Model of the fashion-news bot (src/main.py): one invocation of main()   *)
(* per run, the Appwrite document store shared by all runs, and the        *)
(* Telegram channel.  An action is one synchronous segment of the asyncio  *)
(* driving task (the code between two awaits), or one step of the          *)
(* environment (the store serving a create request, a timeout expiring).   *)
(***************************************************************************)
EXTENDS Integers, Sequences, FiniteSets, TLC

\* ---------------------------------------------------------------- bounds
MaxItems == 2          \* sources of one run, each serving one entry
MaxImg   == 2          \* image URLs _collect_images finds for one entry
MaxOverlap == 2        \* entries of two overlapping runs, taken together
MaxCap   == 1          \* the per-run cap of a build with a small batch size
MaxTitleLen == 900     \* characters of the longest title a source serves
MaxTitleChars == 5     \* characters of the titles whose hashes are compared
MaxWords == 2          \* words of a title given to the relevance filter
MaxQuick == 1          \* ticks a quick call takes at most, and a slow one less than its timeout
MaxTimed == 4          \* candidates of a run with a clock

\* ------------------------------------------------------ program constants
MAX_IMAGES         == 5
PUBLISH_BATCH_SIZE == 25
HOURS_THRESHOLD    == 168
FEED_MAX_RETRIES   == 2
MAX_DESC_CHARS     == 350
GLOBAL_DEADLINE_SEC == 110
FEEDS_TOTAL_TIMEOUT == 25
PAGE_TIMEOUT        == 6
DB_TIMEOUT          == 5

Runs == {"A", "B"}

NoDate == 0                          \* pub_date is None
now    == HOURS_THRESHOLD + 32       \* hours since an arbitrary epoch
time_threshold == now - HOURS_THRESHOLD

\* ------------------------------------------------------------ pure helpers
Min(a, b) == IF a <= b THEN a ELSE b

\* a literal of the source, n characters long
Lit(n) == [i \in 1..n |-> "x"]

\* c repeated n times
Rep(c, n) == [i \in 1..n |-> c]

\* str.lstrip(), str.rstrip()
RECURSIVE LStrip(_)
LStrip(t) == IF t # << >> /\ Head(t) = " " THEN LStrip(Tail(t)) ELSE t

RECURSIVE RStrip(_)
RStrip(t) ==
    IF t # << >> /\ t[Len(t)] = " " THEN RStrip(SubSeq(t, 1, Len(t) - 1)) ELSE t

\* str.strip()
Strip(t) == RStrip(LStrip(t))

\* sep.join(parts)
RECURSIVE JoinWith(_, _)
JoinWith(parts, sep) ==
    IF parts = << >> THEN << >>
    ELSE IF Len(parts) = 1 THEN parts[1]
    ELSE parts[1] \o sep \o JoinWith(Tail(parts), sep)

\* ----------------------------------------------------------------- hashes
\* The characters of a title: the letters "a", "b", "c"; "A", the capital
\* of "a"; "K", the Arabic kaf that both hashes rewrite to the Persian kaf,
\* here "c"; "~", a zero-width character; "-", a punctuation mark; " ".
ZeroWidth == { "~" }

Lower(c) == IF c = "A" THEN "a" ELSE c

Persian(c) == IF c = "K" THEN "c" ELSE c

\* the re.sub that puts a blank for what is no letter, digit or blank
PunctToSpace(c) == IF c = "-" THEN " " ELSE c

\* the code point of a character, as far as their order goes
Code(c) ==
    CASE c = " " -> 0 [] c = "a" -> 1 [] c = "b" -> 2 [] c = "c" -> 3
      [] c = "-" -> 4 [] c = "A" -> 5 [] c = "K" -> 6 [] OTHER -> 7

\* the length of the first word of a text that starts with one
WordLen(t) ==
    IF \E i \in 1..Len(t) : t[i] = " "
    THEN (CHOOSE i \in 1..Len(t) :
              t[i] = " " /\ \A j \in 1..(i - 1) : t[j] # " ") - 1
    ELSE Len(t)

\* str.split(): the maximal runs of characters that are no blanks
RECURSIVE Split(_)
Split(t) ==
    LET s == LStrip(t)
    IN  IF s = << >> THEN << >>
        ELSE << SubSeq(s, 1, WordLen(s)) >>
             \o Split(SubSeq(s, WordLen(s) + 1, Len(s)))

\* u <= v as Python compares two strings: by the first character in which
\* they differ, a prefix coming first
RECURSIVE WordLeq(_, _)
WordLeq(u, v) ==
    IF u = << >> THEN TRUE
    ELSE IF v = << >> THEN FALSE
    ELSE IF Code(Head(u)) # Code(Head(v)) THEN Code(Head(u)) < Code(Head(v))
    ELSE WordLeq(Tail(u), Tail(v))

\* x put into the ascending s, before the first token it does not exceed
RECURSIVE InsertAsc(_, _)
InsertAsc(x, s) ==
    IF s = << >> THEN << x >>
    ELSE IF WordLeq(x, Head(s)) THEN << x >> \o s
    ELSE << Head(s) >> \o InsertAsc(x, Tail(s))

\* the tokens left in the order of the title
SortTokens_Keep(s) == s

\* sorted(tokens)
RECURSIVE SortTokens(_)
SortTokens(s) == IF s = << >> THEN << >> ELSE InsertAsc(Head(s), SortTokens(Tail(s)))

\* _normalize_for_hash: lower case, no blanks at the ends, no zero-width
\* characters, Persian letters, punctuation to blanks, then the tokens
\* sorted and joined by one blank.  (No title of the model has diacritics.)
normalize_for_hash(title) ==
    IF title = << >> THEN << >>
    ELSE LET t1 == Strip([i \in DOMAIN title |-> Lower(title[i])])
             t2 == SelectSeq(t1, LAMBDA c : c \notin ZeroWidth)
             t3 == [i \in DOMAIN t2 |-> PunctToSpace(Persian(t2[i]))]
         IN  JoinWith(SortTokens(Split(t3)), << " " >>)

\* hashlib.sha256(...).hexdigest(): a digest is two blocks of hex digits,
\* the first 36 digits and the remaining 28; distinct texts get distinct
\* digests, and distinct canonical titles distinct leading blocks.
RECURSIVE Enc(_)
Enc(s) == IF s = << >> THEN 0 ELSE Code(Head(s)) + 8 * Enc(Tail(s))

Sha256(text) == << Enc(text), Len(text) >>

\* the titles the sources of the model serve; their digests are worked out
\* once and looked up, the digest of any other title is worked out when asked
ServedTitles ==
    { << "a", " ", "b" >>, << "b", " ", "a" >>, << "c" >> }
        \cup { Rep("a", i) : i \in 1..MaxTimed }

TitleDigest(title) == Sha256(normalize_for_hash(title))

TitleDigests == [t \in ServedTitles |-> TitleDigest(t)]

make_title_hash(title) ==
    IF title \in ServedTitles THEN TitleDigests[title] ELSE TitleDigest(title)

\* _make_content_hash: lower case, no blanks at the ends, no zero-width
\* characters, Persian letters; the order of the words is kept
ContentDigest(title) ==
    LET t1 == Strip([i \in DOMAIN title |-> Lower(title[i])])
        t2 == SelectSeq(t1, LAMBDA c : c \notin ZeroWidth)
    IN  Sha256([i \in DOMAIN t2 |-> Persian(t2[i])])

ContentDigests == [t \in ServedTitles |-> ContentDigest(t)]

make_content_hash(title) ==
    IF title \in ServedTitles THEN ContentDigests[title] ELSE ContentDigest(title)

\* doc_id = title_hash[:36]
DocId(title_hash) == SubSeq(title_hash, 1, 1)

\* the cascade with the allow-terms looked for first
is_fashion_AllowFirst(item) ==
    IF "pos" \in item.desc THEN TRUE
    ELSE IF "neg" \in item.desc THEN FALSE
    ELSE IF "brand" \in item.desc THEN TRUE
    ELSE "domain" \in item.desc

\* _is_fashion: desc is the set of signal kinds occurring in title + desc
is_fashion(item) ==
    IF "neg" \in item.desc THEN FALSE
    ELSE IF "pos" \in item.desc THEN TRUE
    ELSE IF "brand" \in item.desc THEN TRUE
    ELSE "domain" \in item.desc

\* kw in text
Contains(text, kw) ==
    \E i \in 0..(Len(text) - Len(kw)) : SubSeq(text, i + 1, i + Len(kw)) = kw

\* the block-terms and the allow-terms: one block-term of one word, one
\* of two words, one allow-term
NEGATIVE_KEYWORDS == { << "n" >>, << "m", " ", "m" >> }
POSITIVE_KEYWORDS == { << "a" >> }

\* (title + " " + desc).lower()
Combined(title, desc) ==
    LET t == title \o << " " >> \o desc
    IN  [i \in DOMAIN t |-> Lower(t[i])]

\* the parts of the brand name, "|" taken as a blank, that have four
\* characters or more
BrandParts(brand_name) ==
    LET b == [i \in DOMAIN brand_name |->
                 IF brand_name[i] = "|" THEN " " ELSE Lower(brand_name[i])]
        w == Split(b)
    IN  { w[i] : i \in { j \in DOMAIN w : Len(w[j]) >= 4 } }

\* domain.split(".")[0], of a netloc that has no "www."
DomainLabel(netloc) ==
    IF \E i \in DOMAIN netloc : netloc[i] = "."
    THEN SubSeq(netloc, 1, (CHOOSE i \in DOMAIN netloc :
                               netloc[i] = "." /\ \A j \in 1..(i - 1) : netloc[j] # ".") - 1)
    ELSE netloc

\* what _is_fashion finds in the text of an entry: the kinds of signal
Signals(title, desc, netloc, brand_name) ==
    LET combined == Combined(title, desc)
    IN  { k \in {"neg"} : \E kw \in NEGATIVE_KEYWORDS : Contains(combined, kw) }
        \cup
        { k \in {"pos"} : \E kw \in POSITIVE_KEYWORDS : Contains(combined, kw) }
        \cup
        { k \in {"brand"} : \E part \in BrandParts(brand_name) :
                                Contains(combined, part) }
        \cup
        { k \in {"domain"} : /\ netloc # << >>
                             /\ Contains(combined, DomainLabel(netloc)) }

\* key of the Phase 1 sort: pub_date or datetime.min
SortKey(item) == item.pub_date

\* all_items.sort(key=..., reverse=True): stable, newest first
RECURSIVE InsertDesc(_, _)
InsertDesc(x, s) ==
    IF s = << >> THEN << x >>
    ELSE IF SortKey(x) > SortKey(Head(s)) THEN << x >> \o s
    ELSE << Head(s) >> \o InsertDesc(x, Tail(s))

\* the items left in the order of the sources
SortNewestFirst_Unsorted(s) == s

RECURSIVE SortNewestFirst(_)
SortNewestFirst(s) ==
    IF s = << >> THEN << >>
    ELSE InsertDesc(s[Len(s)], SortNewestFirst(SubSeq(s, 1, Len(s) - 1)))


\* ------------------------------------------------------------------- text
\* A text is a sequence of characters.  The characters that matter to the
\* caption are "&", "<", ">" (rewritten by _escape_html) and " " (removed at
\* both ends by strip()); every other character is "x".
CAPTION_MAX == 1020

\* what _escape_html writes for one character: "&amp;", "&lt;", "&gt;"
EscapeChar(c) ==
    IF c = "&" THEN << "&", "x", "x", "x", ";" >>
    ELSE IF c = "<" THEN << "&", "x", "x", ";" >>
    ELSE IF c = ">" THEN << "&", "x", "x", ";" >>
    ELSE << c >>

\* _escape_html, character by character (the halves are rewritten apart:
\* no "&" it writes is rewritten again, "&" being replaced first)
RECURSIVE escape_html(_)
escape_html(t) ==
    IF t = << >> THEN << >>
    ELSE IF Len(t) = 1 THEN EscapeChar(t[1])
    ELSE LET h == Len(t) \div 2
         IN  escape_html(SubSeq(t, 1, h)) \o escape_html(SubSeq(t, h + 1, Len(t)))

\* "\n\n".join(parts)
Join(parts) == JoinWith(parts, << "\n", "\n" >>)

\* text[:n]
Prefix(t, n) == SubSeq(t, 1, Min(n, Len(t)))

Max(a, b) == IF a >= b THEN a ELSE b

\* FIXED_HASHTAGS: 74 characters
FIXED_HASHTAGS == Lit(74)

\* the parts of a caption, in the order _build_caption joins them: the
\* brand line (3 characters ahead of the name), the title line (5
\* characters ahead of the title and "</b>" after it), the rule of 13 characters, the
\* description and the date line when there are any, the link line (11
\* characters ahead of the link and 35 after it) and the hashtag line
CaptionParts(safe_brand, safe_title, safe_desc, date_line, link, hashtag_line) ==
    << Lit(3) \o safe_brand, Lit(5) \o safe_title \o Lit(4), Lit(13) >>
    \o (IF safe_desc # << >> THEN << safe_desc >> ELSE << >>)
    \o (IF date_line # << >> THEN << date_line >> ELSE << >>)
    \o << Lit(11) \o link \o Lit(35), hashtag_line >>

\* _build_caption: only the description is ever shortened
build_caption(title, desc, link, brand_name, brand_tag, pub_date) ==
    LET safe_brand   == escape_html(Strip(brand_name))
        safe_title   == escape_html(Strip(title))
        safe_desc    == escape_html(Strip(desc))
        hashtag_line == brand_tag \o << " " >> \o FIXED_HASHTAGS
        date_line    == IF pub_date # NoDate THEN Lit(22) ELSE << >>
        caption      == Join(CaptionParts(safe_brand, safe_title, safe_desc,
                                          date_line, link, hashtag_line))
        overflow     == Len(caption) - CAPTION_MAX
        trimmed      == Prefix(safe_desc,
                               Max(0, Len(safe_desc) - overflow - 5))
                        \o << "." >>     \* the ellipsis character
    IN  IF Len(caption) > CAPTION_MAX /\ safe_desc # << >>
        THEN Join(CaptionParts(safe_brand, safe_title, trimmed, date_line,
                               link, hashtag_line))
        ELSE caption


\* ------------------------------------------------------------ environment
\* Entries the sources may serve.  title: its characters; desc: the signal
\* kinds found in title + description; pub_date: hours since the epoch.
FeedEntries ==
    { [title |-> << "a", " ", "b" >>, link |-> "l1", pub_date |-> 150,    desc |-> {"pos"}],
      [title |-> << "b", " ", "a" >>, link |-> "l2", pub_date |-> 150,    desc |-> {"pos"}],
      [title |-> << "c" >>,             link |-> "l1", pub_date |-> NoDate, desc |-> {"brand"}],
      [title |-> << "c" >>,             link |-> "l3", pub_date |-> 10,     desc |-> {"pos"}],
      [title |-> << "a", " ", "b" >>, link |-> "l3", pub_date |-> 100,    desc |-> {"neg", "pos"}] }

RECURSIVE SeqsUpTo(_, _)
SeqsUpTo(S, n) ==
    IF n = 0 THEN { << >> }
    ELSE LET shorter == SeqsUpTo(S, n - 1)
         IN  shorter \cup { Append(s, x) : s \in shorter, x \in S }

\* what _fetch_all_parallel can return, in source order
Feeds == SeqsUpTo(FeedEntries, MaxItems)

\* the feeds of two runs that overlap: both find the same article, under
\* the same or a token-shuffled title
OverlapEntries == { e \in FeedEntries : e.pub_date = 150 }
OverlapFeeds == SeqsUpTo(OverlapEntries, MaxOverlap - 1) \ { << >> }

\* What a source answers to the successive requests of one run: HTTP status
\* codes, 0 for a request that raised ConnectionError or Timeout.  A source
\* asked more often than the sequence is long repeats its last answer.
Behaviours ==
    { << 200 >>, << 404 >>, << 500, 200 >>, << 0, 200 >>, << 500, 404 >>,
      << 500, 500 >>, << 0, 0 >> }

Response(b, k) == b[Min(k, Len(b))]

\* every source of src answers 200 at once
AllOk(src) == [i \in DOMAIN src |-> << 200 >>]

\* a record written by an earlier version of the bot: no title_hash, the
\* content_hash and the link of what it posted
LegacyRecords ==
    { [id |-> << 0 >>, title_hash |-> << >>, content_hash |-> make_content_hash(t),
       link |-> "l0"] : t \in { << "c" >> } }

\* the arguments main passes to _build_caption: titles and descriptions
\* of plain characters or of characters _escape_html rewrites, a
\* description as long as _truncate lets it be, a brand name with blanks
\* around it, with and without a publication date
CaptionArgs ==
    [ title      : { Rep(c, n) : c \in {"x", "&"}, n \in {1, 60, MaxTitleLen} },
      desc       : { << >> } \cup
                   { Rep(c, n) : c \in {"x", "<"}, n \in {1, MAX_DESC_CHARS + 1} },
      link       : { Lit(40) },
      brand_name : { Lit(12), << " " >> \o Lit(12) \o << " " >> },
      brand_tag  : { Lit(8) },
      pub_date   : { NoDate, 150 } ]

\* the titles whose hashes are compared: every text of up to MaxTitleChars
\* characters, together with a title made of the same blank-separated
\* tokens in another order
TitleChars == { "a", "b", "A", "K", "~", "-", " " }

Titles == UNION { [1..n -> TitleChars] : n \in 0..MaxTitleChars }

ShuffleTokens(title, p) ==
    LET w == Split(title)
    IN  JoinWith([i \in 1..Len(w) |-> w[p[i]]], << " " >>)

\* the texts given to the relevance filter: words joined by blanks, the
\* words being a block-term, one word of the two-word block-term, the
\* allow-term in small and in capital letters, the long part of the brand
\* name, the domain label, and a word that is no signal
FilterWords ==
    { << "n" >>, << "m" >>, << "a" >>, << "A" >>, << "b", "r", "n", "d" >>,
      << "d" >>, << "x" >> }

FilterTexts(n) == { JoinWith(w, << " " >>) : w \in SeqsUpTo(FilterWords, n) }

\* title and description of an entry of the feed "d.c" of the brand
\* "brnd | br"; _fetch_one_feed drops an entry with an empty title
FilterArgs ==
    [ title      : FilterTexts(MaxWords) \ { << >> },
      desc       : FilterTexts(1),
      netloc     : { << "d", ".", "c" >> },
      brand_name : { << "B", "r", "n", "d", " ", "|", " ", "b", "r" >> } ]

\* ------------------------------------------------------------------ state
VARIABLES
    source,      \* [Runs -> the entries the sources serve to the run]
    invoked,     \* the runs the platform starts
    responses,   \* [Runs -> per source, its answers to the run's requests]
    batch_size,  \* the per-run cap the build was made with
    workers,     \* [Runs -> per source, the worker thread of _fetch_one_feed]
    pc,          \* [Runs -> position of the driving task of the run]
    status,      \* [Runs -> "none" | "success" | "error"]: main's return
    all_items,   \* [Runs -> sequence of entries]
    idx,         \* [Runs -> number of entries the for loop has taken]
    stats,       \* [Runs -> RunStats counters]
    known,       \* [Runs -> [title_hashes, content_hashes, links, posted_hashes]]
    image_urls,  \* [Runs -> number of image URLs of the current entry]
    tg,          \* [Runs -> _post_to_telegram: anchor_msg_id, calls]
    records,     \* documents of the store collection
    dbInflight,  \* create requests sent by db.save, not yet served
    saveResp,    \* [Runs -> result of the awaited db.save future]
    nextMsgId,   \* the channel's next message id
    hist,        \* history of the calls made, for stating the properties
    pure,        \* one call of a pure function: its name, argument, result
    clock        \* [Runs -> left: _time_left(), due: the timeout of the publish]

vars == << source, invoked, responses, batch_size, workers, pc, status,
           all_items, idx, stats, known, image_urls, tg, records, dbInflight,
           saveResp, nextMsgId, hist, pure, clock >>

NoAnchor == 0      \* anchor_msg_id is None

\* ------------------------------------------------------------------- time
\* Time is counted in ticks of half a second and passes only while main
\* awaits.  The clock of a run holds left, the value of _time_left(), and
\* due, the value _time_left() has when the wait_for around
\* _post_to_telegram times out.  In a run without a clock (left = Untimed)
\* a test of the time has any outcome.
Sec(n) == 2 * n

ALBUM_CAPTION_DELAY == 5      \* 2.5 s
STICKER_DELAY       == 3      \* 1.5 s
INTER_POST_DELAY    == 4      \* 2.0 s

Untimed == -1

NoClock == [left |-> Untimed, due |-> Untimed]

\* _t0 = monotonic()
Clock0 == [left |-> Sec(GLOBAL_DEADLINE_SEC), due |-> Untimed]

fetch_budget(l) == Min(Sec(FEEDS_TOTAL_TIMEOUT), l - Sec(60))
db_budget(l)    == Min(Sec(DB_TIMEOUT), l - Sec(50))
save_budget(l)  == Min(Sec(DB_TIMEOUT), l - Sec(10))
\* slip: the page fetch leaves the publish only the 3 s it leaves the return
img_budget_Margin3(l) == Min(Sec(PAGE_TIMEOUT), l - Sec(3))

img_budget(l)   == Min(Sec(PAGE_TIMEOUT), l - Sec(8))
\* slip: the whole of what is left is given to the publish
tg_budget_NoMargin(l) == Min(Sec(15), l)

tg_budget(l)    == Min(Sec(15), l - Sec(3))

\* _time_left() when an awaited step with w ticks to its timeout returns
After(l, w) == IF l = Untimed THEN { Untimed } ELSE { l - d : d \in 0..w }

\* _time_left() when it times out, or when asyncio.sleep(w) is over
AfterAll(l, w) == IF l = Untimed THEN Untimed ELSE l - w

\* the outcomes of a test of the time whose value is v when there is a clock
Test(l, v) == IF l = Untimed THEN BOOLEAN ELSE { v }

\* the clock of run r reads l
Reads(r, l) == clock' = [clock EXCEPT ![r].left = l]

stats0 == [feeds_ok |-> 0, feeds_fail |-> 0, feeds_retry |-> 0,
           entries_total |-> 0, skip_time |-> 0, skip_filter |-> 0,
           skip_dupe |-> 0, posted |-> 0, errors |-> 0, db_timeout |-> FALSE]

\* the worker thread of one source: st is "idle" (not started), "get" (at
\* requests.get), "add" (between the read and the write of
\* stats["feeds_retry"] += 1) or "done"; tmp is the value read
worker0 == [st |-> "idle", attempt |-> 0, tmp |-> 0, result |-> "none"]

known0 == [title_hashes |-> {}, content_hashes |-> {}, links |-> {},
           posted_hashes |-> {}]

tg0 == [anchor_msg_id |-> NoAnchor, calls |-> << >>]

hist0 == [saveTrue   |-> [r \in Runs |-> {}],   \* entries whose db.save gave True to main
          attempts   |-> [r \in Runs |-> << >>],\* entries handed to _post_to_telegram
          saveCalls  |-> [r \in Runs |-> << >>],\* entries for which db.save was called
          dupSkips   |-> [r \in Runs |-> {}],   \* entries skipped by the in-memory checks
          lateCalls  |-> {},                    \* db.save calls made after a True for the hash
          results    |-> [r \in Runs |-> << >>],\* outcome of each publish attempt
          createTrue |-> << >>,                 \* title hashes for which save() returned True
          config     |-> [r \in Runs |-> "unread"], \* "ok" | "missing": what _load_config found
          lowAtStart |-> [r \in Runs |-> FALSE],  \* _time_left() < 15 at the head of Phase 3
          stop       |-> [r \in Runs |-> "none"], \* why main returned
          recorded   |-> {},                    \* db.save calls for a title hash the store held
          retries    |-> [r \in Runs |-> 0],     \* retries the workers of the run made
          afterFail  |-> {}]                    \* candidates taken up after a failed publish elsewhere

\* no pure function is being applied
pure0 == [fn |-> "none", arg |-> << >>, returned |-> FALSE, out |-> << >>]

InitMain ==
    /\ workers = [r \in Runs |-> [i \in DOMAIN source[r] |-> worker0]]
    /\ pc = [r \in Runs |-> "idle"]
    /\ status = [r \in Runs |-> "none"]
    /\ all_items = [r \in Runs |-> << >>]
    /\ idx = [r \in Runs |-> 0]
    /\ stats = [r \in Runs |-> stats0]
    /\ known = [r \in Runs |-> known0]
    /\ image_urls = [r \in Runs |-> 0]
    /\ tg = [r \in Runs |-> tg0]
    /\ dbInflight = {}
    /\ saveResp = [r \in Runs |-> "none"]
    /\ nextMsgId = 1
    /\ hist = hist0

InitRest == InitMain /\ pure = pure0 /\ clock = [r \in Runs |-> NoClock]

\* how the sources of a run answer: several sources all answer at once, a
\* single source answers in any of the ways of Behaviours
SomeResponses(src) ==
    IF Len(src) = 1 THEN { << b >> : b \in Behaviours } ELSE { AllOk(src) }

\* one run finds entries; the other run has no sources
Init ==
    /\ source \in [Runs -> Feeds]
    /\ source["B"] = << >>
    /\ \E ra \in SomeResponses(source["A"]) :
         responses = [r \in Runs |-> IF r = "A" THEN ra ELSE << >>]
    /\ invoked = Runs
    /\ batch_size = PUBLISH_BATCH_SIZE
    /\ records = {}
    /\ InitRest

\* two runs, both finding the same article; the sources of run A may be
\* out of reach
InitOverlap ==
    /\ source \in [Runs -> OverlapFeeds]
    /\ Len(source["A"]) + Len(source["B"]) <= MaxOverlap
    /\ \E down \in BOOLEAN :
         responses = [r \in Runs |->
                        IF down /\ r = "A" THEN [i \in DOMAIN source[r] |-> << 0, 0 >>]
                        ELSE AllOk(source[r])]
    /\ invoked = Runs
    /\ batch_size = PUBLISH_BATCH_SIZE
    /\ records = {}
    /\ InitRest

\* entries that pass the age window and the relevance filter
FreshEntries ==
    { e \in FeedEntries :
        ~(e.pub_date # NoDate /\ e.pub_date < time_threshold) /\ is_fashion(e) }

\* fresh entries that differ from each other in title_hash and in link
DistinctEntries == { e \in FreshEntries : e.title # << "a", " ", "b" >> }

\* one run, alone, of a build whose per-run cap is small
InitCap ==
    /\ source \in [Runs -> SeqsUpTo(DistinctEntries, MaxItems)]
    /\ source["B"] = << >>
    /\ \E ra \in SomeResponses(source["A"]) :
         responses = [r \in Runs |-> IF r = "A" THEN ra ELSE << >>]
    /\ invoked = { "A" }
    /\ batch_size \in MaxCap..MaxItems
    /\ records = {}
    /\ InitRest

\* one run, alone, whose sources all serve the same entry and answer in
\* any of the ways of Behaviours
InitFetch ==
    /\ source \in [Runs -> SeqsUpTo({ e \in FreshEntries : e.pub_date = NoDate }, MaxItems)]
    /\ source["B"] = << >>
    /\ \E ra \in [DOMAIN source["A"] -> Behaviours] :
         responses = [r \in Runs |-> IF r = "A" THEN ra ELSE << >>]
    /\ invoked = { "A" }
    /\ batch_size = PUBLISH_BATCH_SIZE
    /\ records = {}
    /\ InitRest

\* one run, alone, over a store that holds a record of an earlier version
InitLegacy ==
    /\ source \in [Runs -> SeqsUpTo(DistinctEntries, MaxItems)]
    /\ source["B"] = << >>
    /\ \E ra \in SomeResponses(source["A"]) :
         responses = [r \in Runs |-> IF r = "A" THEN ra ELSE << >>]
    /\ invoked = { "A" }
    /\ batch_size = PUBLISH_BATCH_SIZE
    /\ \E old \in LegacyRecords : records = { old }
    /\ InitRest

\* the i-th entry a run with a clock finds: fresh, relevant, and unlike
\* the others in title_hash, content_hash and link
TimedEntry(i) ==
    [title |-> Rep("a", i), link |-> "t" \o ToString(i), pub_date |-> 150,
     desc |-> {"pos"}]

\* one run, alone, with a clock: _t0 is taken as main is entered, every
\* source answers at once or the first one at its second request
InitTimed ==
    /\ source = [r \in Runs |-> IF r = "A" THEN [i \in 1..MaxTimed |-> TimedEntry(i)]
                                 ELSE << >>]
    /\ \E b \in { << 200 >>, << 500, 200 >> } :
         responses = [r \in Runs |->
                        IF r = "A" THEN [i \in 1..MaxTimed |-> IF i = 1 THEN b ELSE << 200 >>]
                        ELSE << >>]
    /\ invoked = { "A" }
    /\ batch_size = PUBLISH_BATCH_SIZE
    /\ records = {}
    /\ InitMain
    /\ pure = pure0
    /\ clock = [r \in Runs |-> IF r = "A" THEN Clock0 ELSE NoClock]

\* --------------------------------------------------------------- main()
\* slip: _response reports an exit before Phase 3 as an error
ResponseStatus_Error(why) ==
    IF why \in {"fetch_budget", "no_entries"} THEN "error" ELSE "success"

\* _response: "status": "success", wherever main returns from
ResponseStatus(why) == "success"

\* return _response(stats); why: the place main returns from, h: the
\* history up to here
Return(r, why, h) ==
    /\ pc' = [pc EXCEPT ![r] = "done"]
    /\ status' = [status EXCEPT ![r] = ResponseStatus(why)]
    /\ hist' = [h EXCEPT !.stop[r] = why]

\* main(), from the entry to the await of Phase 1
Start(r) ==
    /\ pc[r] = "idle"
    /\ r \in invoked
    /\ \E config \in BOOLEAN,
          fetch_budget_ok \in Test(clock[r].left,
                                   fetch_budget(clock[r].left) >= Sec(5)) :
         LET h == [hist EXCEPT !.config[r] = IF config THEN "ok" ELSE "missing"]
         IN  IF ~config
             THEN /\ pc' = [pc EXCEPT ![r] = "done"]
                  /\ status' = [status EXCEPT ![r] = "error"]
                  /\ hist' = [h EXCEPT !.stop[r] = "config"]
                  /\ UNCHANGED workers
             ELSE IF ~fetch_budget_ok
             THEN /\ Return(r, "fetch_budget", h)
                  /\ UNCHANGED workers
             ELSE /\ pc' = [pc EXCEPT ![r] = "fetch"]
                  /\ workers' = [workers EXCEPT ![r] =
                                   [i \in DOMAIN source[r] |-> [worker0 EXCEPT !.st = "get"]]]
                  /\ hist' = h
                  /\ UNCHANGED status
    /\ UNCHANGED << pure, clock, source, invoked, responses, batch_size,
                    all_items, idx, stats, known, image_urls, tg, records,
                    dbInflight, saveResp, nextMsgId >>

\* ------------------------------------------------------- _fetch_one_feed
\* slip: a 404 is handled as any other answer that is not 200
AfterResponse_Retry404(code, attempt) ==
    IF code = 200 THEN "items"
    ELSE IF attempt < FEED_MAX_RETRIES - 1 THEN "retry"
    ELSE "failed"

\* what the loop of _fetch_one_feed does with the answer to the request of
\* this attempt: return [] ("empty"), return the items, go round again, or
\* return None ("failed")
AfterResponse(code, attempt) ==
    IF code = 404 THEN "empty"
    ELSE IF code = 200 THEN "items"
    ELSE IF attempt < FEED_MAX_RETRIES - 1 THEN "retry"
    ELSE "failed"

\* The worker of source i at requests.get, attempt workers[r][i].attempt:
\* 404 returns [], 200 returns the items, any other answer is retried
\* while attempt < FEED_MAX_RETRIES - 1 and returns None after that.  The
\* step ends after the read of stats["feeds_retry"] when a retry follows.
WorkerGet(r, i) ==
    /\ pc[r] = "fetch"
    /\ workers[r][i].st = "get"
    /\ LET w    == workers[r][i]
           what == AfterResponse(Response(responses[r][i], w.attempt + 1),
                                 w.attempt)
       IN  workers' = [workers EXCEPT ![r][i] =
             IF what = "retry"
             THEN [w EXCEPT !.st = "add", !.tmp = stats[r].feeds_retry]
             ELSE [w EXCEPT !.st = "done", !.result = what]]
    /\ UNCHANGED << pure, clock, source, invoked, responses, batch_size, pc,
                    status, all_items, idx, stats, known, image_urls, tg,
                    records, dbInflight, saveResp, nextMsgId, hist >>

\* the worker writes stats["feeds_retry"], sleeps and starts its next attempt
WorkerRetry(r, i) ==
    /\ pc[r] = "fetch"
    /\ workers[r][i].st = "add"
    /\ stats' = [stats EXCEPT ![r].feeds_retry = workers[r][i].tmp + 1]
    /\ workers' = [workers EXCEPT ![r][i] =
                     [@ EXCEPT !.st = "get", !.attempt = @ + 1, !.tmp = 0]]
    /\ hist' = [hist EXCEPT !.retries[r] = @ + 1]
    /\ UNCHANGED << pure, clock, source, invoked, responses, batch_size, pc,
                    status, all_items, idx, known, image_urls, tg, records,
                    dbInflight, saveResp, nextMsgId >>

\* --------------------------------------------------- _fetch_all_parallel
\* the result loop: the items of the sources that returned some, in the
\* order of BRAND_FEEDS
RECURSIVE Gathered(_, _, _)
Gathered(src, ws, n) ==
    IF n = 0 THEN << >>
    ELSE Gathered(src, ws, n - 1)
           \o (IF ws[n].result = "items" THEN << src[n] >> ELSE << >>)

\* main(), from the result of Phase 1 to the await of Phase 2 (or to Phase 3);
\* s: the counters of the run after Phase 1, l: what _time_left() reads
Phase1Done(r, items, s, l) ==
    /\ stats' = [stats EXCEPT ![r] = [s EXCEPT !.entries_total = Len(items)]]
    /\ Reads(r, l)
    /\ IF items = << >>
       THEN /\ Return(r, "no_entries", hist)
            /\ UNCHANGED all_items
       ELSE /\ all_items' = [all_items EXCEPT ![r] = SortNewestFirst(items)]
            /\ UNCHANGED << status, hist >>
            /\ \E db_budget_ok \in Test(l, db_budget(l) > Sec(2)) :
                 pc' = [pc EXCEPT ![r] = IF db_budget_ok THEN "load" ELSE "loop"]
    /\ UNCHANGED << pure, source, invoked, responses, batch_size, workers, idx,
                    known, image_urls, tg, records, dbInflight, saveResp,
                    nextMsgId >>

\* asyncio.gather has every worker's result: _fetch_all_parallel counts the
\* sources and returns all_items
FetchReturn(r) ==
    /\ pc[r] = "fetch"
    /\ \A i \in DOMAIN workers[r] : workers[r][i].st = "done"
    /\ \E l \in After(clock[r].left, fetch_budget(clock[r].left)) :
         LET failed == { i \in DOMAIN workers[r] : workers[r][i].result = "failed" }
         IN  Phase1Done(r, Gathered(source[r], workers[r], Len(source[r])),
                        [stats[r] EXCEPT
                           !.feeds_fail = @ + Cardinality(failed),
                           !.feeds_ok   = @ + Len(source[r]) - Cardinality(failed)],
                        l)

\* asyncio.TimeoutError of the Phase 1 wait_for: all_items = []
TimeoutItems(src, ws) == << >>

\* The outer deadline of Phase 1 elapses: gather is cancelled and its
\* results are dropped.  The worker threads run on, unobserved: main
\* reads nothing of theirs after this point.
FetchTimeout(r) ==
    /\ pc[r] = "fetch"
    /\ Phase1Done(r, TimeoutItems(source[r], workers[r]), stats[r],
                  AfterAll(clock[r].left, fetch_budget(clock[r].left)))

\* Phase 2: db.load_recent returned raw_records
LoadReturn(r) ==
    /\ pc[r] = "load"
    /\ \E raw_records \in SUBSET records :
         known' = [known EXCEPT
                     ![r].title_hashes   = { rec.title_hash : rec \in raw_records } \ { << >> },
                     ![r].content_hashes = { rec.content_hash : rec \in raw_records } \ { << >> },
                     ![r].links          = { rec.link : rec \in raw_records } \ { "" }]
    /\ pc' = [pc EXCEPT ![r] = "loop"]
    /\ \E l \in After(clock[r].left, db_budget(clock[r].left)) : Reads(r, l)
    /\ UNCHANGED << pure, source, invoked, responses, batch_size, workers, status,
                    all_items, idx, stats, image_urls, tg, records,
                    dbInflight, saveResp, nextMsgId, hist >>

\* Phase 2: the wait_for timed out, or load_recent raised
LoadFail(r) ==
    /\ pc[r] = "load"
    /\ stats' = [stats EXCEPT ![r].db_timeout = TRUE]
    /\ pc' = [pc EXCEPT ![r] = "loop"]
    /\ \E l \in After(clock[r].left, db_budget(clock[r].left)) : Reads(r, l)
    /\ UNCHANGED << pure, source, invoked, responses, batch_size, workers, status,
                    all_items, idx, known, image_urls, tg, records,
                    dbInflight, saveResp, nextMsgId, hist >>


\* --------------------------------------------------------------- Phase 3
\* the loop ends (exhausted or break): summary and return _response(stats)
Finish(r, why, h) == Return(r, why, h)

\* slip: the title_hash checks are left out, the legacy checks remain
DupInMemory_NoTitleHash(k, item) ==
    \/ make_content_hash(item.title) \in k.content_hashes
    \/ item.link \in k.links

\* the four in-memory duplicate checks of the for loop, in the order of the code
DupInMemory(k, item) ==
    \/ make_title_hash(item.title) \in k.posted_hashes
    \/ make_title_hash(item.title) \in k.title_hashes
    \/ make_content_hash(item.title) \in k.content_hashes
    \/ item.link \in k.links

\* the request db.save posts for the entry at position i of run r
SaveRequest(r, i, item) ==
    [run          |-> r,
     idx          |-> i,
     id           |-> DocId(make_title_hash(item.title)),
     title_hash   |-> make_title_hash(item.title),
     content_hash |-> make_content_hash(item.title),
     link         |-> item.link]

\* a publish attempt of another run for title hash th has failed
FailedElsewhere(r, th) ==
    \E r2 \in Runs \ { r } : \E j \in DOMAIN hist.results[r2] :
        /\ hist.results[r2][j] # "true"
        /\ make_title_hash(all_items[r2][hist.attempts[r2][j]].title) = th

\* slip: the budget check at the head of the loop is left out
StopForTime_Never(time_low) == FALSE

\* `if _time_left() < 15: break`
StopForTime(time_low) == time_low

\* slip: the cap is compared with > for >=
CapReached_Above(posted, cap) == posted > cap

\* `if stats["posted"] >= PUBLISH_BATCH_SIZE: break`
CapReached(posted, cap) == posted >= cap

\* the age check applied to every dated and undated entry alike
TooOld_NoDateToo(item) == item.pub_date < time_threshold

\* `if pub_date and pub_date < time_threshold`
TooOld(item) == item.pub_date # NoDate /\ item.pub_date < time_threshold

\* one pass of the for loop, from its head to `continue`, `break` or the
\* await of db.save
Phase3Iter(r) ==
    /\ pc[r] = "loop"
    /\ tg' = [tg EXCEPT ![r] = tg0]
    /\ image_urls' = [image_urls EXCEPT ![r] = 0]
    /\ IF idx[r] >= Len(all_items[r])
       THEN /\ Finish(r, "exhausted", hist)
            /\ UNCHANGED << idx, stats, dbInflight >>
       ELSE \E time_low \in Test(clock[r].left, clock[r].left < Sec(15)),
               save_budget_ok \in Test(clock[r].left,
                                       save_budget(clock[r].left) >= Sec(1)) :
            LET i    == idx[r] + 1
                item == all_items[r][i]
                h1   == IF idx[r] = 0 /\ time_low
                        THEN [hist EXCEPT !.lowAtStart[r] = TRUE] ELSE hist
                h0   == IF FailedElsewhere(r, make_title_hash(item.title))
                        THEN [h1 EXCEPT !.afterFail = @ \cup { << r, i >> }] ELSE h1
                skip(counter) ==
                    /\ stats' = [stats EXCEPT ![r][counter] = @ + 1]
                    /\ idx' = [idx EXCEPT ![r] = i]
                    /\ hist' = IF counter = "skip_dupe"
                               THEN [h0 EXCEPT !.dupSkips[r] = @ \cup { i }]
                               ELSE h0
                    /\ UNCHANGED << pc, status, dbInflight >>
            IN  IF StopForTime(time_low)
                THEN /\ Finish(r, "time_low", h0)
                     /\ UNCHANGED << idx, stats, dbInflight >>
                ELSE IF CapReached(stats[r].posted, batch_size)
                THEN /\ Finish(r, "cap", h0)
                     /\ UNCHANGED << idx, stats, dbInflight >>
                ELSE IF TooOld(item)
                THEN skip("skip_time")
                ELSE IF ~is_fashion(item)
                THEN skip("skip_filter")
                ELSE IF DupInMemory(known[r], item)
                THEN skip("skip_dupe")
                ELSE IF ~save_budget_ok
                THEN /\ Finish(r, "save_budget", h0)
                     /\ UNCHANGED << idx, stats, dbInflight >>
                ELSE /\ idx' = [idx EXCEPT ![r] = i]
                     /\ dbInflight' = dbInflight \cup { SaveRequest(r, i, item) }
                     /\ hist' = [h0 EXCEPT
                                   !.saveCalls[r] = Append(@, i),
                                   !.lateCalls = IF \E j \in DOMAIN hist.createTrue :
                                                      hist.createTrue[j] = make_title_hash(item.title)
                                                 THEN @ \cup { << r, i >> } ELSE @,
                                   !.recorded = IF \E rec \in records :
                                                     rec.title_hash = make_title_hash(item.title)
                                                THEN @ \cup { << r, i >> } ELSE @]
                     /\ pc' = [pc EXCEPT ![r] = "save"]
                     /\ UNCHANGED << status, stats >>
    /\ UNCHANGED << pure, clock, source, invoked, responses, batch_size,
                    workers, all_items, known, records, saveResp, nextMsgId >>

\* ------------------------------------------------------ _AppwriteDB.save
\* slip: a create for an existing document id overwrites the document
StoreCreate_Upsert(recs, req) ==
    LET doc == [id |-> req.id, title_hash |-> req.title_hash,
                content_hash |-> req.content_hash, link |-> req.link]
    IN  IF \E rec \in recs : rec.id = req.id
        THEN [code |-> 200, recs |-> { rec \in recs : rec.id # req.id } \cup { doc }]
        ELSE [code |-> 201, recs |-> recs \cup { doc }]

\* the store serves a create: 409 when the document id exists, else 201
StoreCreate(recs, req) ==
    IF \E rec \in recs : rec.id = req.id
    THEN [code |-> 409, recs |-> recs]
    ELSE [code |-> 201,
          recs |-> recs \cup { [id |-> req.id, title_hash |-> req.title_hash,
                                content_hash |-> req.content_hash,
                                link |-> req.link] }]

\* slip: a 409 conflict is taken for a success
SaveResult_ConflictTrue(code) ==
    IF code \in {200, 201} THEN TRUE
    ELSE IF code = 409 THEN TRUE
    ELSE FALSE

\* slip: save() fails open on a store error
SaveResult_ErrorTrue(code) ==
    IF code \in {200, 201} THEN TRUE
    ELSE IF code = 409 THEN FALSE
    ELSE TRUE

\* the value save() returns for a response code (0: requests raised)
SaveResult(code) ==
    IF code \in {200, 201} THEN TRUE
    ELSE IF code = 409 THEN FALSE
    ELSE FALSE

\* The worker thread of db.save gets its answer.  outcome "served": the
\* store's response arrives; "failed": a 5xx or no connection, nothing is
\* stored; "lost": the store served the request but requests.post raised
\* (read timeout).  The future's result reaches main only while main still
\* awaits this very request.
DbSave(req) ==
    /\ req \in dbInflight
    /\ \E outcome \in {"served", "failed", "lost"} :
         LET served == StoreCreate(records, req)
             code   == CASE outcome = "served" -> served.code
                         [] outcome = "failed" -> 500
                         [] outcome = "lost"   -> 0
             ret    == SaveResult(code)
             r      == req.run
         IN  /\ records' = IF outcome = "failed" THEN records ELSE served.recs
             /\ saveResp' = IF pc[r] = "save" /\ idx[r] = req.idx
                            THEN [saveResp EXCEPT ![r] = IF ret THEN "true" ELSE "false"]
                            ELSE saveResp
             /\ hist' = IF ret THEN [hist EXCEPT !.createTrue = Append(@, req.title_hash)]
                        ELSE hist
    /\ dbInflight' = dbInflight \ { req }
    /\ UNCHANGED << pure, clock, source, invoked, responses, batch_size, workers, pc,
                    status, all_items, idx, stats, known, image_urls, tg,
                    nextMsgId >>


\* ----------------------------------------------------- _post_to_telegram
\* a call to the Bot API, as recorded in tg[r].calls; ids: the message ids
\* of the messages the call sent
Call(op, reply_to) ==
    [op |-> op, res |-> "pending", reply_to |-> reply_to, ids |-> << >>]

\* the awaited call (the last one begun) gets its result
Answer(calls, res, ids) ==
    [calls EXCEPT ![Len(calls)].res = res, ![Len(calls)].ids = ids]

\* slip: the first message of the album is taken as the anchor
AlbumAnchor_First(sent) == sent[1]

\* anchor_msg_id = sent[-1].message_id
AlbumAnchor(sent) == sent[Len(sent)]

\* slip: no single-photo fallback after a failed album
AfterAlbumFail_NoFallback(n) == "tg_caption"

\* the step after a failed album: `if image_urls:` send_photo of the first image
AfterAlbumFail(n) == IF n > 0 THEN "tg_photo" ELSE "tg_caption"

\* slip: a failed caption is logged and the sticker step follows
AfterCaptionFail_GoOn == "tg_delay2"

\* slip: a failed caption is sent again
AfterCaptionFail_Retry == "tg_caption"

\* the step after a failed send_message: return False
AfterCaptionFail == "return_false"

\* slip: the sticker's failure is returned as the attempt's failure
StickerReturnValue_Sticker(ok) == ok

\* the value returned after the sticker step, sent or not
StickerReturnValue(ok) == TRUE

\* _time_left() when a call awaited in _post_to_telegram returns
TgAfter(r) == After(clock[r].left, clock[r].left - clock[r].due)

\* asyncio.sleep(d) in _post_to_telegram is over before the timeout of the
\* wait_for around it
SleepEnds(r, d) == clock[r].left = Untimed \/ clock[r].left - d >= clock[r].due

\* the coroutine runs up to its first await
PublishBegin(r, n) ==
    LET first == IF n >= 2 THEN "album" ELSE IF n = 1 THEN "photo" ELSE "caption"
    IN  /\ tg' = [tg EXCEPT ![r] = [anchor_msg_id |-> NoAnchor,
                                    calls |-> << Call(first, NoAnchor) >>]]
        /\ pc' = [pc EXCEPT ![r] = "tg_" \o first]

\* slip: a failed publish is logged and not counted
FailedPublish_Uncounted(s) == s

\* slip: a failed publish is counted as an error and as a duplicate
FailedPublish_CountedTwice(s) == [s EXCEPT !.errors = @ + 1, !.skip_dupe = @ + 1]

\* the counters after a failed publish: stats["errors"] += 1
FailedPublish(s) == [s EXCEPT !.errors = @ + 1]

\* slip: the inter-post delay does not look at the time left
InterPostDelayDue_AnyTime(time_ok, posted, cap) == posted < cap

\* `if _time_left() > 8 and stats["posted"] < PUBLISH_BATCH_SIZE`
InterPostDelayDue(time_ok, posted, cap) == time_ok /\ posted < cap

\* main(), after _post_to_telegram returned or its wait_for timed out;
\* how: "true" or "false" as returned, "timeout" for asyncio.TimeoutError;
\* l: what _time_left() reads
PostResult(r, success, how, l) ==
    /\ hist' = [hist EXCEPT !.results[r] = Append(@, how)]
    /\ clock' = [clock EXCEPT ![r] = [left |-> l, due |-> Untimed]]
    /\ IF success
       THEN /\ stats' = [stats EXCEPT ![r].posted = @ + 1]
            /\ \E time_ok \in Test(l, l > Sec(8)) :
                 pc' = [pc EXCEPT ![r] =
                          IF InterPostDelayDue(time_ok, stats[r].posted + 1, batch_size)
                          THEN "ipd" ELSE "loop"]
       ELSE /\ stats' = [stats EXCEPT ![r] = FailedPublish(@)]
            /\ pc' = [pc EXCEPT ![r] = "loop"]

\* _post_to_telegram returns v
PublishReturn(r, v, l) == PostResult(r, v, IF v THEN "true" ELSE "false", l)

\* send_media_group returned or raised TelegramError
AlbumReturn(r) ==
    /\ pc[r] = "tg_album"
    /\ \E l \in TgAfter(r) : Reads(r, l)
    /\ \E ok \in BOOLEAN :
         IF ok
         THEN LET k    == Min(image_urls[r], MAX_IMAGES)
                  sent == [j \in 1..k |-> nextMsgId + j - 1]
              IN  /\ tg' = [tg EXCEPT ![r].anchor_msg_id = AlbumAnchor(sent),
                                      ![r].calls = Answer(@, "ok", sent)]
                  /\ nextMsgId' = nextMsgId + k
                  /\ pc' = [pc EXCEPT ![r] = "tg_delay1"]
         ELSE LET nxt == AfterAlbumFail(image_urls[r])
              IN  /\ UNCHANGED nextMsgId
                  /\ tg' = [tg EXCEPT ![r].calls =
                              Append(Answer(@, "fail", << >>),
                                     Call(IF nxt = "tg_photo" THEN "photo" ELSE "caption",
                                          NoAnchor))]
                  /\ pc' = [pc EXCEPT ![r] = nxt]
    /\ UNCHANGED << pure, source, invoked, responses, batch_size, workers, status,
                    all_items, idx, stats, known, image_urls, records,
                    dbInflight, saveResp, hist >>

\* send_photo (primary or fallback) returned or raised TelegramError
PhotoReturn(r) ==
    /\ pc[r] = "tg_photo"
    /\ \E l \in TgAfter(r) : Reads(r, l)
    /\ \E ok \in BOOLEAN :
         IF ok
         THEN /\ tg' = [tg EXCEPT ![r].anchor_msg_id = nextMsgId,
                                  ![r].calls = Answer(@, "ok", << nextMsgId >>)]
              /\ nextMsgId' = nextMsgId + 1
              /\ pc' = [pc EXCEPT ![r] = "tg_delay1"]
         ELSE /\ tg' = [tg EXCEPT ![r].calls =
                          Append(Answer(@, "fail", << >>),
                                 Call("caption", tg[r].anchor_msg_id))]
              /\ UNCHANGED nextMsgId
              /\ pc' = [pc EXCEPT ![r] = "tg_caption"]
    /\ UNCHANGED << pure, source, invoked, responses, batch_size, workers, status,
                    all_items, idx, stats, known, image_urls, records,
                    dbInflight, saveResp, hist >>

\* asyncio.sleep(ALBUM_CAPTION_DELAY) is over: send_message is called
Delay1Done(r) ==
    /\ pc[r] = "tg_delay1"
    /\ SleepEnds(r, ALBUM_CAPTION_DELAY)
    /\ Reads(r, AfterAll(clock[r].left, ALBUM_CAPTION_DELAY))
    /\ tg' = [tg EXCEPT ![r].calls = Append(@, Call("caption", tg[r].anchor_msg_id))]
    /\ pc' = [pc EXCEPT ![r] = "tg_caption"]
    /\ UNCHANGED << pure, source, invoked, responses, batch_size, workers, status,
                    all_items, idx, stats, known, image_urls, records,
                    dbInflight, saveResp, nextMsgId, hist >>

\* send_message returned or raised TelegramError
CaptionReturn(r) ==
    /\ pc[r] = "tg_caption"
    /\ \E ok \in BOOLEAN, l \in TgAfter(r) :
         IF ok
         THEN /\ tg' = [tg EXCEPT ![r].calls = Answer(@, "ok", << nextMsgId >>)]
              /\ nextMsgId' = nextMsgId + 1
              /\ pc' = [pc EXCEPT ![r] = "tg_delay2"]
              /\ Reads(r, l)
              /\ UNCHANGED << stats, hist >>
         ELSE /\ UNCHANGED nextMsgId
              /\ IF AfterCaptionFail = "return_false"
                 THEN /\ tg' = [tg EXCEPT ![r].calls = Answer(@, "fail", << >>)]
                      /\ PublishReturn(r, FALSE, l)
                 ELSE /\ tg' = [tg EXCEPT ![r].calls =
                                  IF AfterCaptionFail = "tg_caption"
                                  THEN Append(Answer(@, "fail", << >>),
                                              Call("caption", tg[r].anchor_msg_id))
                                  ELSE Answer(@, "fail", << >>)]
                      /\ pc' = [pc EXCEPT ![r] = AfterCaptionFail]
                      /\ Reads(r, l)
                      /\ UNCHANGED << stats, hist >>
    /\ UNCHANGED << pure, source, invoked, responses, batch_size, workers, status,
                    all_items, idx, known, image_urls, records, dbInflight,
                    saveResp >>

\* asyncio.sleep(STICKER_DELAY) is over: send_sticker is called
Delay2Done(r) ==
    /\ pc[r] = "tg_delay2"
    /\ SleepEnds(r, STICKER_DELAY)
    /\ Reads(r, AfterAll(clock[r].left, STICKER_DELAY))
    /\ tg' = [tg EXCEPT ![r].calls = Append(@, Call("sticker", NoAnchor))]
    /\ pc' = [pc EXCEPT ![r] = "tg_sticker"]
    /\ UNCHANGED << pure, source, invoked, responses, batch_size, workers, status,
                    all_items, idx, stats, known, image_urls, records,
                    dbInflight, saveResp, nextMsgId, hist >>

\* send_sticker returned or raised TelegramError: return True
StickerReturn(r) ==
    /\ pc[r] = "tg_sticker"
    /\ \E ok \in BOOLEAN, l \in TgAfter(r) :
         /\ tg' = [tg EXCEPT ![r].calls =
                     IF ok THEN Answer(@, "ok", << nextMsgId >>)
                     ELSE Answer(@, "fail", << >>)]
         /\ nextMsgId' = IF ok THEN nextMsgId + 1 ELSE nextMsgId
         /\ PublishReturn(r, StickerReturnValue(ok), l)
    /\ UNCHANGED << pure, source, invoked, responses, batch_size, workers, status,
                    all_items, idx, known, image_urls, records, dbInflight,
                    saveResp >>

TgAwaits == {"tg_album", "tg_photo", "tg_delay1", "tg_caption", "tg_delay2",
             "tg_sticker"}

\* asyncio.TimeoutError of the wait_for around _post_to_telegram: the
\* coroutine is cancelled at the await it is suspended in
PublishTimeout(r) ==
    /\ pc[r] \in TgAwaits
    /\ tg' = [tg EXCEPT ![r].calls =
                IF pc[r] \in {"tg_delay1", "tg_delay2"} THEN @
                ELSE Answer(@, "cancelled", << >>)]
    /\ PostResult(r, FALSE, "timeout", clock[r].due)
    /\ UNCHANGED << pure, source, invoked, responses, batch_size, workers, status,
                    all_items, idx, known, image_urls, records, dbInflight,
                    saveResp, nextMsgId >>

\* asyncio.sleep(INTER_POST_DELAY) is over
InterPostDelayDone(r) ==
    /\ pc[r] = "ipd"
    /\ pc' = [pc EXCEPT ![r] = "loop"]
    /\ Reads(r, AfterAll(clock[r].left, INTER_POST_DELAY))
    /\ UNCHANGED << pure, source, invoked, responses, batch_size, workers, status,
                    all_items, idx, stats, known, image_urls, tg, records,
                    dbInflight, saveResp, nextMsgId, hist >>

\* --------------------------------------------- main(): save, images, post
\* slip: the result of db.save is not looked at
PassesSaveGate_Always(saved) == TRUE

\* `if not saved: continue`: the entry goes on to the publish steps
PassesSaveGate(saved) == saved

\* main(), from the caption build to the await of _post_to_telegram;
\* h is the history up to here, l what _time_left() reads
ToTelegram(r, n, h, l) ==
    /\ image_urls' = [image_urls EXCEPT ![r] = n]
    /\ \E tg_budget_ok \in Test(l, tg_budget(l) >= Sec(4)) :
         IF ~tg_budget_ok
         THEN /\ Finish(r, "tg_budget", h)
              /\ Reads(r, l)
              /\ UNCHANGED tg
         ELSE /\ PublishBegin(r, n)
              /\ clock' = [clock EXCEPT ![r] =
                             [left |-> l, due |-> AfterAll(l, tg_budget(l))]]
              /\ hist' = [h EXCEPT !.attempts[r] = Append(@, idx[r])]
              /\ UNCHANGED status

\* main(), from the result of db.save to the next await
SaveReturn(r) ==
    /\ pc[r] = "save"
    /\ saveResp[r] # "none"
    /\ saveResp' = [saveResp EXCEPT ![r] = "none"]
    /\ \E l \in After(clock[r].left, save_budget(clock[r].left)) :
       LET saved == (saveResp[r] = "true")
           item  == all_items[r][idx[r]]
           h     == IF saved THEN [hist EXCEPT !.saveTrue[r] = @ \cup { idx[r] }]
                    ELSE hist
       IN  IF ~PassesSaveGate(saved)
           THEN /\ stats' = [stats EXCEPT ![r].skip_dupe = @ + 1]
                /\ pc' = [pc EXCEPT ![r] = "loop"]
                /\ hist' = h
                /\ Reads(r, l)
                /\ UNCHANGED << status, known, image_urls, tg >>
           ELSE /\ known' = [known EXCEPT
                    ![r].posted_hashes  = @ \cup { make_title_hash(item.title) },
                    ![r].title_hashes   = @ \cup { make_title_hash(item.title) },
                    ![r].content_hashes = @ \cup { make_content_hash(item.title) },
                    ![r].links          = @ \cup { item.link }]
                /\ UNCHANGED stats
                /\ \E img_budget_ok \in Test(l, img_budget(l) > Sec(2)) :
                     IF img_budget_ok
                     THEN /\ pc' = [pc EXCEPT ![r] = "images"]
                          /\ hist' = h
                          /\ Reads(r, l)
                          /\ UNCHANGED << status, image_urls, tg >>
                     ELSE ToTelegram(r, 0, h, l)
    /\ UNCHANGED << pure, source, invoked, responses, batch_size, workers,
                    all_items, idx, records, dbInflight, nextMsgId >>

\* slip: db.save is awaited without a timeout
SaveTimeoutArmed_Not == FALSE

\* asyncio.wait_for(..., timeout=save_budget)
SaveTimeoutArmed == TRUE

\* asyncio.TimeoutError of the wait_for around db.save: the worker thread
\* keeps running, its request stays in flight
SaveTimeout(r) ==
    /\ pc[r] = "save"
    /\ saveResp[r] = "none"
    /\ SaveTimeoutArmed
    /\ stats' = [stats EXCEPT ![r].errors = @ + 1]
    /\ pc' = [pc EXCEPT ![r] = "loop"]
    /\ Reads(r, AfterAll(clock[r].left, save_budget(clock[r].left)))
    /\ UNCHANGED << pure, source, invoked, responses, batch_size, workers, status,
                    all_items, idx, known, image_urls, tg, records,
                    dbInflight, saveResp, nextMsgId, hist >>

\* _collect_images returned n URLs
ImagesReturn(r) ==
    /\ pc[r] = "images"
    /\ \E n \in 0..MaxImg, l \in After(clock[r].left, img_budget(clock[r].left)) :
         ToTelegram(r, Min(n, MAX_IMAGES), hist, l)
    /\ UNCHANGED << pure, source, invoked, responses, batch_size, workers,
                    all_items, idx, stats, known, records, dbInflight,
                    saveResp, nextMsgId >>

\* asyncio.TimeoutError of the wait_for around _collect_images
ImagesTimeout(r) ==
    /\ pc[r] = "images"
    /\ ToTelegram(r, 0, hist, AfterAll(clock[r].left, img_budget(clock[r].left)))
    /\ UNCHANGED << pure, source, invoked, responses, batch_size, workers,
                    all_items, idx, stats, known, records, dbInflight,
                    saveResp, nextMsgId >>

\* ------------------------------------------------------------ specification
\* the steps of the driving task of run r, the timeouts of its wait_for
\* calls among them
MainStep(r) ==
    \/ Start(r)
    \/ FetchReturn(r)
    \/ FetchTimeout(r)
    \/ LoadReturn(r)
    \/ LoadFail(r)
    \/ Phase3Iter(r)
    \/ SaveReturn(r)
    \/ SaveTimeout(r)
    \/ ImagesReturn(r)
    \/ ImagesTimeout(r)
    \/ AlbumReturn(r)
    \/ PhotoReturn(r)
    \/ Delay1Done(r)
    \/ CaptionReturn(r)
    \/ Delay2Done(r)
    \/ StickerReturn(r)
    \/ PublishTimeout(r)
    \/ InterPostDelayDone(r)

\* the steps of the worker threads of run r
ThreadStep(r) ==
    \/ \E i \in DOMAIN workers[r] : WorkerGet(r, i)
    \/ \E i \in DOMAIN workers[r] : WorkerRetry(r, i)
    \/ \E req \in dbInflight : req.run = r /\ DbSave(req)

Next == \E r \in Runs : MainStep(r) \/ ThreadStep(r)

Spec == Init /\ [][Next]_vars

SpecOverlap == InitOverlap /\ [][Next]_vars

SpecCap == InitCap /\ [][Next]_vars

SpecLegacy == InitLegacy /\ [][Next]_vars

SpecFetch == InitFetch /\ [][Next]_vars

\* The run with a clock meets slow sources, a slow store, slow pages and
\* a quick channel.  The fetch, the load and a save take their whole
\* timeout or up to MaxQuick ticks less, and the store serves every create;
\* a page fetch returns as its timeout is due; a call of the channel
\* returns at once, accepted or refused, or takes so long that the wait_for
\* around the publish times out.  The page of the i-th entry carries i
\* images, counted modulo MaxImg + 1.
Took(r) == clock[r].left - clock'[r].left

Slow(r, w) == Took(r) >= w - MaxQuick

SlowFetch(r) == FetchReturn(r) /\ Slow(r, fetch_budget(clock[r].left))

SlowLoad(r) == LoadReturn(r) /\ Slow(r, db_budget(clock[r].left))

SlowLoadFail(r) == LoadFail(r) /\ Slow(r, db_budget(clock[r].left))

SlowSave(r) == SaveReturn(r) /\ Slow(r, save_budget(clock[r].left))

SlowImages(r) ==
    /\ ImagesReturn(r)
    /\ Took(r) = img_budget(clock[r].left)
    /\ image_urls'[r] = idx[r] % (MaxImg + 1)

\* the store serves the create: save() returns True
Served(req) == DbSave(req) /\ Len(hist'.createTrue) > Len(hist.createTrue)

QuickAlbum(r) == AlbumReturn(r) /\ Took(r) = 0

QuickPhoto(r) == PhotoReturn(r) /\ Took(r) = 0

QuickCaption(r) == CaptionReturn(r) /\ Took(r) = 0

QuickSticker(r) == StickerReturn(r) /\ Took(r) = 0

MainStepTimed(r) ==
    \/ Start(r)
    \/ SlowFetch(r)
    \/ FetchTimeout(r)
    \/ SlowLoad(r)
    \/ SlowLoadFail(r)
    \/ Phase3Iter(r)
    \/ SlowSave(r)
    \/ SlowImages(r)
    \/ QuickAlbum(r)
    \/ QuickPhoto(r)
    \/ Delay1Done(r)
    \/ QuickCaption(r)
    \/ Delay2Done(r)
    \/ QuickSticker(r)
    \/ PublishTimeout(r)
    \/ InterPostDelayDone(r)

ThreadStepTimed(r) ==
    \/ \E i \in DOMAIN workers[r] : WorkerGet(r, i)
    \/ \E i \in DOMAIN workers[r] : WorkerRetry(r, i)
    \/ \E req \in dbInflight : req.run = r /\ Served(req)

NextTimed == \E r \in Runs : MainStepTimed(r) \/ ThreadStepTimed(r)

SpecTimed == InitTimed /\ [][NextTimed]_vars

\* Every await of main is an asyncio.sleep or sits under a wait_for, so
\* the driving task always gets its next step, from the awaited call or
\* from the timeout; nothing is assumed of the worker threads and the store.
FairSpecCap == SpecCap /\ \A r \in Runs : WF_vars(MainStep(r))

\* ---------------------------------------------------- the pure functions
\* The state of main() that a pure function neither reads nor writes.
mainVars == << source, invoked, responses, batch_size, workers, pc, status,
               all_items, idx, stats, known, image_urls, tg, records,
               dbInflight, saveResp, nextMsgId, hist, clock >>

\* a call about to be made, with its argument
PureCall(fn, arg) == [fn |-> fn, arg |-> arg, returned |-> FALSE, out |-> << >>]

\* no run is started; one pure function is called once
InitPure ==
    /\ source = [r \in Runs |-> << >>]
    /\ invoked = {}
    /\ responses = [r \in Runs |-> << >>]
    /\ batch_size = PUBLISH_BATCH_SIZE
    /\ records = {}
    /\ InitMain
    /\ clock = [r \in Runs |-> NoClock]
    /\ \/ \E a \in CaptionArgs : pure = PureCall("build_caption", a)
       \/ \E a \in FilterArgs : pure = PureCall("is_fashion", a)
       \/ \E t \in Titles : \E p \in Permutations(1..Len(Split(t))) :
             pure = PureCall("make_title_hash",
                             [title |-> t, shuffled |-> ShuffleTokens(t, p)])

BuildCaption ==
    /\ pure.fn = "build_caption"
    /\ ~pure.returned
    /\ pure' = [pure EXCEPT
                  !.returned = TRUE,
                  !.out = build_caption(pure.arg.title, pure.arg.desc,
                                        pure.arg.link, pure.arg.brand_name,
                                        pure.arg.brand_tag, pure.arg.pub_date)]
    /\ UNCHANGED mainVars

\* the title hashes of a title and of the title with its tokens shuffled
TitleHashes ==
    /\ pure.fn = "make_title_hash"
    /\ ~pure.returned
    /\ pure' = [pure EXCEPT
                  !.returned = TRUE,
                  !.out = << make_title_hash(pure.arg.title),
                             make_title_hash(pure.arg.shuffled) >>]
    /\ UNCHANGED mainVars

IsFashion ==
    /\ pure.fn = "is_fashion"
    /\ ~pure.returned
    /\ pure' = [pure EXCEPT
                  !.returned = TRUE,
                  !.out = is_fashion([desc |-> Signals(pure.arg.title,
                                                       pure.arg.desc,
                                                       pure.arg.netloc,
                                                       pure.arg.brand_name)])]
    /\ UNCHANGED mainVars

NextPure == BuildCaption \/ TitleHashes \/ IsFashion

SpecPure == InitPure /\ [][NextPure]_vars


TypeOK ==
    /\ pc \in [Runs -> {"idle", "fetch", "load", "loop", "save", "images", "ipd",
                        "done"} \cup TgAwaits]
    /\ \A r \in Runs : idx[r] \in 0..Len(all_items[r])
    /\ \A r \in Runs : clock[r].left \in Int /\ clock[r].due \in Int

\* ================================================================ properties
Range(f) == { f[j] : j \in DOMAIN f }

\* title_hash of the entry at position i of run r
TH(r, i) == make_title_hash(all_items[r][i].title)

\* title hashes of the entries of run r at the positions in P
HashesAt(r, P) == { TH(r, i) : i \in P }

\* a publish attempt of run r has begun and its calls are on record
Attempting(r) == tg[r].calls # << >>

\* C1: save precedes publish.  Every entry handed to the publisher, and the
\* entry any channel call on record belongs to, is an entry for which this
\* run's db.save has already returned True, the store having answered the
\* create for its title_hash with success.
C1_SavePrecedesPublish ==
    \A r \in Runs :
        /\ Range(hist.attempts[r]) \subseteq hist.saveTrue[r]
        /\ Attempting(r) =>
             /\ idx[r] \in hist.saveTrue[r]
             /\ TH(r, idx[r]) \in Range(hist.createTrue)
             /\ hist.attempts[r] # << >>
             /\ hist.attempts[r][Len(hist.attempts[r])] = idx[r]

\* a channel call has been answered for an entry whose save returned True
C1_Witness ==
    \E r \in Runs :
        /\ Attempting(r)
        /\ tg[r].calls[1].res = "ok"
        /\ idx[r] \in hist.saveTrue[r]

\* C2: two overlapping runs holding a candidate with the same title_hash.
\* For every title_hash at most one run gets True from db.save and at most
\* one run makes a publish attempt.
C2_OneWinnerAcrossRuns ==
    \A r1 \in Runs, r2 \in Runs :
        r1 # r2 =>
          /\ HashesAt(r1, hist.saveTrue[r1]) \cap HashesAt(r2, hist.saveTrue[r2]) = {}
          /\ HashesAt(r1, Range(hist.attempts[r1]))
                \cap HashesAt(r2, Range(hist.attempts[r2])) = {}

\* both runs passed their in-memory checks and called db.save for the same
\* title_hash while the other's call was under way or done; one published
C2_Witness ==
    \E r1 \in Runs, r2 \in Runs :
        /\ r1 # r2
        /\ pc[r1] = "save" /\ saveResp[r1] = "false"
        /\ TH(r1, idx[r1]) \in HashesAt(r2, Range(hist.attempts[r2]))
        /\ pc[r2] \in TgAwaits

\* C3: the dedup gate is monotonic.  Once save() has returned True for a
\* title_hash, no save() for an equal title_hash returns True again, in
\* this or any other run.
C3_DedupGateMonotonic ==
    [][ \A th \in Range(hist.createTrue) :
            \/ hist'.createTrue = hist.createTrue
            \/ hist'.createTrue[Len(hist'.createTrue)] # th ]_vars

\* a db.save called after a True for the same title_hash has returned False
C3_Witness ==
    \E r \in Runs :
        /\ << r, idx[r] >> \in hist.lateCalls
        /\ pc[r] = "save"
        /\ saveResp[r] = "false"
        /\ TH(r, idx[r]) \in Range(hist.createTrue)


\* the entry passes the age window and the relevance filter
Eligible(item) ==
    /\ ~(item.pub_date # NoDate /\ item.pub_date < time_threshold)
    /\ is_fashion(item)

\* C4, as claimed: of the candidates of a run with the same title_hash only
\* the first in iteration order is published, i.e. no entry is handed to the
\* publisher when an earlier candidate of the run has the same title_hash.
C4_OnlyFirstPublished ==
    \A r \in Runs : \A i \in Range(hist.attempts[r]) : \A i2 \in 1..(i - 1) :
        ~(TH(r, i2) = TH(r, i) /\ Eligible(all_items[r][i2]))

\* C4, amended: within one run at most one publish attempt is made per
\* title_hash; once db.save has returned True for a title_hash, every later
\* candidate of the run with that title_hash is skipped as a duplicate by
\* the in-memory checks, with no create call and no publish attempt.
C4_OnePublishPerHash ==
    \A r \in Runs :
        /\ \A j1 \in DOMAIN hist.attempts[r], j2 \in DOMAIN hist.attempts[r] :
               j1 # j2 => TH(r, hist.attempts[r][j1]) # TH(r, hist.attempts[r][j2])
        /\ \A i \in hist.saveTrue[r] : \A i2 \in (i + 1)..idx[r] :
               TH(r, i2) = TH(r, i) =>
                 /\ i2 \notin Range(hist.saveCalls[r])
                 /\ i2 \notin Range(hist.attempts[r])
                 /\ Eligible(all_items[r][i2]) => i2 \in hist.dupSkips[r]

\* the first of two candidates with the same title_hash was handed to the
\* publisher and the second one was skipped as a duplicate
C4_Witness ==
    \E r \in Runs : \E i \in Range(hist.attempts[r]) : \E i2 \in hist.dupSkips[r] :
        /\ i < i2
        /\ TH(r, i) = TH(r, i2)
        /\ all_items[r][i].title # all_items[r][i2].title


\* the calls of the publish attempt on record for run r
Calls(r) == tg[r].calls

\* the attempt on record is over: the publisher returned or was cancelled
Completed(r) == Len(hist.results[r]) = Len(hist.attempts[r])

\* how the attempt on record ended: "true", "false" or "timeout"
LastResult(r) == hist.results[r][Len(hist.results[r])]

\* positions in the calls of run r with operation op
CallsOf(r, op) == { k \in DOMAIN Calls(r) : Calls(r)[k].op = op }

\* C5: the sticker step never changes what the publisher returns.  When the
\* caption send has succeeded and the publisher returns, it returns True;
\* and it returns True as soon as the sticker send is answered, sent or failed.
C5_StickerIsDecorative ==
    \A r \in Runs :
        Attempting(r) /\ (\E k \in CallsOf(r, "caption") : Calls(r)[k].res = "ok") =>
          /\ Completed(r) /\ LastResult(r) # "timeout" => LastResult(r) = "true"
          /\ \A k \in CallsOf(r, "sticker") :
                 Calls(r)[k].res \in {"ok", "fail"} => Completed(r) /\ LastResult(r) = "true"

\* the sticker send failed after a delivered caption and True was returned
C5_Witness ==
    \E r \in Runs :
        /\ \E k \in CallsOf(r, "caption") : Calls(r)[k].res = "ok"
        /\ \E k \in CallsOf(r, "sticker") : Calls(r)[k].res = "fail"
        /\ Completed(r)
        /\ LastResult(r) = "true"

\* C6: a failed caption send makes the publisher return False; send_message
\* is called once per publish attempt, and nothing is sent after a failed
\* caption.
C6_CaptionFailureIsFinal ==
    \A r \in Runs :
        Attempting(r) =>
          /\ Cardinality(CallsOf(r, "caption")) <= 1
          /\ Completed(r) /\ LastResult(r) # "timeout"
                => Cardinality(CallsOf(r, "caption")) = 1
          /\ \A k \in CallsOf(r, "caption") :
                 Calls(r)[k].res = "fail" =>
                   /\ k = Len(Calls(r))
                   /\ CallsOf(r, "sticker") = {}
                   /\ Completed(r)
                   /\ LastResult(r) = "false"

\* the caption send failed and the publisher returned False
C6_Witness ==
    \E r \in Runs :
        /\ \E k \in CallsOf(r, "caption") : Calls(r)[k].res = "fail"
        /\ Completed(r)
        /\ LastResult(r) = "false"

\* C7: with two or more images the album is sent first; when it fails, the
\* single photo is the next call, before the caption; and after the
\* fallback, sent or failed, the caption is the next call (it follows the
\* delay when the fallback was sent, unless the attempt is cancelled).
C7_AlbumThenFallbackThenCaption ==
    \A r \in Runs :
        Attempting(r) /\ image_urls[r] >= 2 =>
          LET c == Calls(r)
          IN  /\ c[1].op = "album"
              /\ c[1].res = "fail" =>
                   /\ Len(c) >= 2
                   /\ c[2].op = "photo"
                   /\ \A k \in CallsOf(r, "caption") : k > 2
                   /\ c[2].res = "fail" => Len(c) >= 3 /\ c[3].op = "caption"
                   /\ c[2].res = "ok" =>
                        \/ pc[r] = "tg_delay1"
                        \/ Completed(r) /\ LastResult(r) = "timeout" /\ Len(c) = 2
                        \/ Len(c) >= 3 /\ c[3].op = "caption"

\* the album failed, the fallback photo was sent, the caption was then sent
C7_Witness ==
    \E r \in Runs :
        /\ image_urls[r] >= 2
        /\ Len(Calls(r)) >= 3
        /\ Calls(r)[1].op = "album" /\ Calls(r)[1].res = "fail"
        /\ Calls(r)[2].op = "photo" /\ Calls(r)[2].res = "ok"
        /\ Calls(r)[3].op = "caption" /\ Calls(r)[3].res = "ok"

\* C8: the caption is a reply exactly when an image send of this attempt
\* succeeded, and then to the last message that send produced; after a sent
\* album the caption is the next call and no single photo is sent; with no
\* image the caption is the first call and stands alone.
C8_CaptionRepliesToAnchor ==
    \A r \in Runs :
        Attempting(r) =>
          LET c == Calls(r)
          IN  /\ \A k \in CallsOf(r, "caption") :
                   LET sends == { j \in 1..(k - 1) :
                                    c[j].op \in {"album", "photo"} /\ c[j].res = "ok" }
                   IN  /\ c[k].reply_to # NoAnchor <=> sends # {}
                       /\ \A j \in sends : c[k].reply_to = c[j].ids[Len(c[j].ids)]
              /\ c[1].op = "album" /\ c[1].res = "ok" =>
                   /\ Len(c[1].ids) = Min(image_urls[r], MAX_IMAGES)
                   /\ CallsOf(r, "photo") = {}
                   /\ Len(c) >= 2 => c[2].op = "caption"
              /\ image_urls[r] = 0 => c[1].op = "caption" /\ c[1].reply_to = NoAnchor

\* an album of several messages was sent and the caption replies to its last
C8_Witness ==
    \E r \in Runs :
        /\ Len(Calls(r)) >= 2
        /\ Calls(r)[1].op = "album" /\ Calls(r)[1].res = "ok"
        /\ Len(Calls(r)[1].ids) >= 2
        /\ Calls(r)[2].op = "caption" /\ Calls(r)[2].res = "ok"
        /\ Calls(r)[2].reply_to = Calls(r)[1].ids[Len(Calls(r)[1].ids)]
        /\ Calls(r)[2].reply_to # Calls(r)[1].ids[1]

\* the calls of run r are made one after the other: only the last one can
\* be unanswered
OneAtATime(r) == \A k \in 1..(Len(Calls(r)) - 1) : Calls(r)[k].res # "pending"

\* C9, as claimed: a publish attempt makes between 1 and 3 calls to the
\* channel, one at a time.
C9_OneToThreeCalls ==
    \A r \in Runs :
        /\ pc[r] \in TgAwaits \/ ~Completed(r) => Attempting(r)
        /\ Attempting(r) => Len(Calls(r)) \in 1..3 /\ OneAtATime(r)

\* C9, amended: a publish attempt makes between 1 and 4 calls to the
\* channel (album, fallback photo, caption, sticker), one at a time and in
\* that order.
C9_OneToFourCalls ==
    \A r \in Runs :
        /\ pc[r] \in TgAwaits \/ ~Completed(r) => Attempting(r)
        /\ Attempting(r) =>
             /\ Len(Calls(r)) \in 1..4
             /\ OneAtATime(r)
             /\ \A k1 \in DOMAIN Calls(r), k2 \in DOMAIN Calls(r) :
                    k1 < k2 =>
                      << Calls(r)[k1].op, Calls(r)[k2].op >> \in
                        { << "album", "photo" >>, << "album", "caption" >>,
                          << "album", "sticker" >>, << "photo", "caption" >>,
                          << "photo", "sticker" >>, << "caption", "sticker" >> }

\* album, fallback photo, caption and sticker were all called in one attempt
C9_Witness ==
    \E r \in Runs :
        /\ Len(Calls(r)) = 4
        /\ Calls(r)[4].op = "sticker"
        /\ Calls(r)[4].res = "ok"

\* C10: a delay of the publish protocol, once entered, runs to its end: the
\* attempt leaves the delay only into the call that follows it.
C10_DelaysRunToCompletion ==
    [][ \A r \in Runs :
          /\ pc[r] = "tg_delay1" => pc'[r] \in {"tg_delay1", "tg_caption"}
          /\ pc[r] = "tg_delay2" => pc'[r] \in {"tg_delay2", "tg_sticker"} ]_vars

\* C11: budget respect.  A run whose remaining time is below the Phase 3
\* floor at the head of Phase 3 has returned with status success, having
\* made no create call and no publish attempt.
C11_BudgetRespect ==
    \A r \in Runs :
        hist.lowAtStart[r] =>
          /\ pc[r] = "done"
          /\ status[r] = "success"
          /\ hist.stop[r] = "time_low"
          /\ hist.saveCalls[r] = << >>
          /\ hist.attempts[r] = << >>
          /\ ~Attempting(r)
          /\ \A req \in dbInflight : req.run # r

\* the time was low at the head of Phase 3 with a candidate at hand that
\* would have been saved, and the run returned success
C11_Witness ==
    \E r \in Runs :
        /\ hist.lowAtStart[r]
        /\ status[r] = "success"
        /\ all_items[r] # << >>
        /\ Eligible(all_items[r][1])
        /\ stats[r].entries_total = Len(all_items[r])

\* C12: the posted counter never exceeds the per-run cap, and from a state
\* in which it has reached the cap the run makes no create call and no
\* publish attempt.
C12_CapRespected ==
    [][ \A r \in Runs :
          /\ stats'[r].posted <= batch_size
          /\ stats[r].posted >= batch_size =>
                /\ hist'.saveCalls[r] = hist.saveCalls[r]
                /\ hist'.attempts[r] = hist.attempts[r]
                /\ \A req \in dbInflight' \ dbInflight : req.run # r
                /\ pc'[r] \in {"loop", "done"} ]_vars

\* the cap was reached with a fresh candidate left, and the run stopped there
C12_Witness ==
    \E r \in Runs :
        /\ stats[r].posted = batch_size
        /\ hist.stop[r] = "cap"
        /\ idx[r] < Len(all_items[r])
        /\ ~DupInMemory(known[r], all_items[r][idx[r] + 1])

\* C13: when the outer deadline of Phase 1 elapses before every source has
\* been fetched, the run goes on with the entries of the sources fetched
\* by then: they are sorted into all_items and Phase 2 or Phase 3 follows.
C13_PartialResultsKept ==
    [][ \A r \in Runs :
          /\ pc[r] = "fetch"
          /\ pc'[r] # "fetch"
          /\ \E i \in DOMAIN workers[r] : workers[r][i].st # "done"
          => LET got == Gathered(source[r], workers[r], Len(source[r]))
             IN  /\ all_items'[r] = SortNewestFirst(got)
                 /\ got # << >> => pc'[r] \in {"load", "loop"} ]_vars

\* C14: when the bulk load timed out or failed, the run goes on to Phase 3
\* with nothing but its own hashes in the known sets, and a candidate whose
\* title_hash had a record in the store when its create call was made gets
\* False from db.save and no publish attempt.
C14_LoadFailureStillDedups ==
    \A r \in Runs :
        stats[r].db_timeout =>
          /\ pc[r] # "load"
          /\ status[r] # "error"
          /\ known[r].title_hashes = known[r].posted_hashes
          /\ known[r].title_hashes = HashesAt(r, hist.saveTrue[r])
          /\ \A i \in DOMAIN all_items[r] :
                 << r, i >> \in hist.recorded =>
                   /\ i \notin hist.saveTrue[r]
                   /\ i \notin Range(hist.attempts[r])

\* a run whose bulk load failed called create for a title_hash the other
\* run had recorded, was refused, counted a duplicate and returned
C14_Witness ==
    \E r \in Runs : \E i \in DOMAIN all_items[r] :
        /\ stats[r].db_timeout
        /\ << r, i >> \in hist.recorded
        /\ stats[r].skip_dupe >= 1
        /\ pc[r] = "done"
        /\ status[r] = "success"
        /\ hist.attempts[r] = << >>

\* C15: a record, once created, stays in the store as it is, whatever
\* becomes of the publish attempt; and a candidate taken up after another
\* run's publish attempt for its title_hash has failed gets neither True
\* from db.save nor a publish attempt, the failed one's record being there.
C15_RecordsAreFinal ==
    /\ [][ records \subseteq records' ]_vars
    /\ [](\A r \in Runs : \A i \in DOMAIN all_items[r] :
            << r, i >> \in hist.afterFail =>
              /\ i \notin hist.saveTrue[r]
              /\ i \notin Range(hist.attempts[r])
              /\ \E rec \in records : rec.title_hash = TH(r, i))

\* one run's publish failed after its create; the other run took up the
\* same title_hash afterwards, under another link, was refused by the
\* store or skipped it as known, and ended without a publish attempt
C15_Witness ==
    \E r \in Runs : \E i \in DOMAIN all_items[r] :
        /\ << r, i >> \in hist.afterFail
        /\ i \in hist.dupSkips[r] \/ i \in Range(hist.saveCalls[r])
        /\ pc[r] = "done"
        /\ hist.stop[r] = "exhausted"
        /\ \A rec \in records : rec.link # all_items[r][i].link

\* C16: a publish attempt that ends in failure, returned by the publisher
\* or through the per-publish timeout, adds one to errors, leaves posted
\* and the other counters as they are, and takes the run back to the head
\* of the loop, without the inter-post delay and without ending the run.
C16_FailedPublishIsCounted ==
    [][ \A r \in Runs :
          /\ Len(hist'.results[r]) = Len(hist.results[r]) + 1
          /\ hist'.results[r][Len(hist'.results[r])] # "true"
          => /\ stats'[r] = [stats[r] EXCEPT !.errors = @ + 1]
             /\ pc'[r] = "loop"
             /\ status'[r] = "none"
             /\ idx'[r] = idx[r] ]_vars

\* after a publish attempt cut off by the timeout and one the publisher
\* reported failed, both counted, the run ended with the list exhausted
C16_Witness ==
    \E r \in Runs :
        /\ Len(hist.results[r]) = 2
        /\ hist.results[r][1] = "timeout"
        /\ hist.results[r][2] = "false"
        /\ stats[r].errors = 2
        /\ stats[r].posted = 0
        /\ hist.stop[r] = "exhausted"

C18_RunEnds ==
    /\ \A r \in Runs : <>(r \in invoked => pc[r] = "done")
    /\ [](\A r \in Runs :
            pc[r] = "done" /\ hist.stop[r] \notin {"config", "fetch_budget", "no_entries"} =>
              /\ status[r] = "success"
              /\ hist.stop[r] \in {"exhausted", "cap", "time_low", "save_budget", "tg_budget"}
              /\ hist.stop[r] = "exhausted" => idx[r] = Len(all_items[r])
              /\ hist.stop[r] = "cap" => stats[r].posted = batch_size)

\* a run whose bulk load failed ended at the cap with candidates left
C18_Witness ==
    \E r \in Runs :
        /\ pc[r] = "done"
        /\ status[r] = "success"
        /\ hist.stop[r] = "cap"
        /\ idx[r] < Len(all_items[r])
        /\ stats[r].db_timeout

\* C19: the counters of a run are written by its driving task only (a
\* step that changes a counter is a step of main, which moves its position
\* or takes a candidate), and feeds_retry counts every retry made.
C19_CountersHaveOneWriter ==
    [][ \A r \in Runs :
          /\ stats'[r] # stats[r] => pc'[r] # pc[r] \/ idx'[r] # idx[r]
          /\ stats'[r].feeds_retry = hist'.retries[r] ]_vars

\* C20: content_hash decides no skip.  Every candidate skipped as a
\* duplicate by the in-memory checks has its title_hash in the in-run set
\* or in the loaded set, or its link among the known links.
C20_ContentHashNotLoadBearing ==
    \A r \in Runs : \A i \in hist.dupSkips[r] :
        \/ TH(r, i) \in known[r].posted_hashes
        \/ TH(r, i) \in known[r].title_hashes
        \/ all_items[r][i].link \in known[r].links

\* C21: the caption built by _build_caption is never longer than
\* CAPTION_MAX characters, whatever the title, description, link, brand
\* name and tag.
C21_CaptionWithinCeiling ==
    pure.fn = "build_caption" /\ pure.returned
        => Len(pure.out) <= CAPTION_MAX

\* C22: normalization is order-independent.  The title hash of a title and
\* the title hash of the same blank-separated tokens in any other order are
\* equal.
C22_HashIgnoresTokenOrder ==
    pure.fn = "make_title_hash" /\ pure.returned => pure.out[1] = pure.out[2]

\* three tokens in another order, hashed
C22_Witness ==
    /\ pure.fn = "make_title_hash" /\ pure.returned
    /\ Len(Split(pure.arg.title)) = 3
    /\ pure.arg.shuffled # pure.arg.title
    /\ Split(pure.arg.shuffled) # Split(pure.arg.title)

\* C23: the block-list wins.  A text (title, a blank, description) that
\* contains a block-term is rejected by _is_fashion, whatever allow-term,
\* brand part or domain label it contains as well.
C23_BlockTermWins ==
    /\ pure.fn = "is_fashion" /\ pure.returned
    /\ \E kw \in NEGATIVE_KEYWORDS :
           Contains(pure.arg.title \o << " " >> \o pure.arg.desc, kw)
    => pure.out = FALSE

\* a text with the two-word block-term across title and description, an
\* allow-term and the brand part, rejected
C23_Witness ==
    /\ pure.fn = "is_fashion" /\ pure.returned
    /\ Contains(pure.arg.title \o << " " >> \o pure.arg.desc, << "m", " ", "m" >>)
    /\ ~Contains(pure.arg.title, << "m", " ", "m" >>)
    /\ \/ Contains(pure.arg.title, << "a" >>)
       \/ Contains(pure.arg.title, << "b", "r", "n", "d" >>)
    /\ pure.out = FALSE

\* C24: in Phase 1 a source is requested at most FEED_MAX_RETRIES times in
\* a run; a 404 is never followed by another request to the source, makes
\* the worker return an empty list, and the source is counted in feeds_ok,
\* not in feeds_fail.
Requests(w) == IF w.st = "idle" THEN 0 ELSE w.attempt + 1

Answered404(r, i) ==
    /\ workers[r][i].st = "done"
    /\ Response(responses[r][i], workers[r][i].attempt + 1) = 404

ResultIs(r, res) == { i \in DOMAIN workers[r] : workers[r][i].result = res }

C24_BoundedRequestsAnd404 ==
    \A r \in Runs :
        /\ \A i \in DOMAIN workers[r] :
             /\ Requests(workers[r][i]) <= FEED_MAX_RETRIES
             /\ \A k \in 1..workers[r][i].attempt :
                    Response(responses[r][i], k) # 404
             /\ Answered404(r, i) => workers[r][i].result = "empty"
        /\ stats[r].feeds_ok + stats[r].feeds_fail > 0 =>
             /\ stats[r].feeds_fail = Cardinality(ResultIs(r, "failed"))
             /\ stats[r].feeds_ok = Cardinality(ResultIs(r, "items"))
                                    + Cardinality(ResultIs(r, "empty"))
             /\ stats[r].entries_total = Cardinality(ResultIs(r, "items"))

\* a source that answered 500 and then 404: two requests, counted in
\* feeds_ok, beside a source that failed twice
C24_Witness ==
    \E i, j \in DOMAIN workers["A"] :
        /\ responses["A"][i] = << 500, 404 >>
        /\ Answered404("A", i)
        /\ Requests(workers["A"][i]) = FEED_MAX_RETRIES
        /\ workers["A"][j].result = "failed"
        /\ stats["A"].feeds_ok = 1
        /\ stats["A"].feeds_fail = 1

\* C25: Phase 3 is strictly sequential.  Of the external calls of Phase 3
\* of one run (the create requests of db.save, the page fetch of
\* _collect_images, the calls to the channel) at most one is in flight at
\* any moment, also after the wait_for around one of them has timed out
\* and main has gone on.
SavesInFlight(r) == { req \in dbInflight : req.run = r }

ChannelCallInFlight(r) ==
    pc[r] \in TgAwaits \ { "tg_delay1", "tg_delay2" }

C25_OneExternalCallAtATime ==
    \A r \in Runs :
        Cardinality(SavesInFlight(r))
          + (IF pc[r] = "images" THEN 1 ELSE 0)
          + (IF ChannelCallInFlight(r) THEN 1 ELSE 0) <= 1

\* C26: Phase 3 takes the candidates newest first.  In all_items no
\* candidate stands ahead of one with a later publication date, every
\* candidate without a date stands after every candidate with one, and the
\* create calls and the publish attempts of a run are made in the order of
\* all_items.
Increasing(s) == \A k \in 1..(Len(s) - 1) : s[k] < s[k + 1]

C26_NewestFirst ==
    \A r \in Runs :
        /\ \A i, j \in DOMAIN all_items[r] :
             i < j =>
               LET a == all_items[r][i].pub_date
                   b == all_items[r][j].pub_date
               IN  /\ a = NoDate => b = NoDate
                   /\ a # NoDate /\ b # NoDate => a >= b
        /\ Increasing(hist.saveCalls[r])
        /\ Increasing(hist.attempts[r])

\* the first source serves an entry without a date, the second a dated
\* one; both are handed to the publisher, the dated one first
C26_Witness ==
    /\ Len(source["A"]) = 2
    /\ source["A"][1].pub_date = NoDate
    /\ source["A"][2].pub_date # NoDate
    /\ hist.attempts["A"] = << 1, 2 >>
    /\ all_items["A"] = << source["A"][2], source["A"][1] >>

\* C27: the age skip has no side effect.  When the loop passes over a
\* candidate whose publication date is older than the horizon, skip_time
\* goes up by one and nothing else happens: no create request, no image
\* fetch, no channel call, no change of the known sets, of the store or of
\* the other counters.  A candidate without a date is never counted in
\* skip_time.
TakesUp(r) == idx'[r] = idx[r] + 1

C27_AgeSkipIsPure ==
    [][\A r \in Runs :
         TakesUp(r) =>
           LET item == all_items[r][idx'[r]]
           IN  /\ item.pub_date # NoDate /\ item.pub_date < time_threshold =>
                    /\ stats'[r] = [stats[r] EXCEPT !.skip_time = @ + 1]
                    /\ pc'[r] = "loop"
                    /\ dbInflight' = dbInflight
                    /\ records' = records
                    /\ known' = known
                    /\ hist'.saveCalls = hist.saveCalls
                    /\ hist'.attempts = hist.attempts
                    /\ tg'[r].calls = << >>
               /\ item.pub_date = NoDate =>
                    stats'[r].skip_time = stats[r].skip_time]_vars

\* one candidate was skipped for its age and a candidate without a date
\* went on to its create call
C27_Witness ==
    /\ stats["A"].skip_time = 1
    /\ \E i \in Range(hist.saveCalls["A"]) : all_items["A"][i].pub_date = NoDate

\* C28: the known sets of a run (title hashes, content hashes, links and
\* the posted set) are written by the bulk load of Phase 2, which leaves
\* the posted set alone, and by main when db.save has returned True, which
\* adds the fingerprints of that candidate; when db.save returns False or
\* its wait_for times out the four sets stay as they are.
WithFingerprints(k, item) ==
    [title_hashes   |-> k.title_hashes \cup { make_title_hash(item.title) },
     content_hashes |-> k.content_hashes \cup { make_content_hash(item.title) },
     links          |-> k.links \cup { item.link },
     posted_hashes  |-> k.posted_hashes \cup { make_title_hash(item.title) }]

C28_KnownSetsWriters ==
    [][\A r \in Runs :
         /\ known'[r] # known[r] =>
              \/ /\ pc[r] = "load"
                 /\ known'[r].posted_hashes = known[r].posted_hashes
              \/ /\ pc[r] = "save"
                 /\ saveResp[r] = "true"
                 /\ known'[r] = WithFingerprints(known[r], all_items[r][idx[r]])
         /\ pc[r] = "save" /\ pc'[r] # "save" /\ saveResp[r] # "true" =>
              known'[r] = known[r]]_vars

\* the bulk load has filled the known sets, a create call was made and did
\* not return True, and the sets are as the load left them
C28_Witness ==
    /\ pc["A"] = "done"
    /\ known["A"].content_hashes # {}
    /\ hist.saveCalls["A"] # << >>
    /\ hist.saveTrue["A"] = {}
    /\ known["A"].title_hashes = {}
    /\ known["A"].posted_hashes = {}
    /\ known["A"].links = { "l0" }

\* ------------------------------------------------------------------ C29
\* C29: the inter-post delay is entered only by the step that ends a
\* publish with success, and only when, as that step reads the clock, more
\* than 8 s are left and the posted counter is below the per-run cap; the
\* step that ends a publish without success (False returned, or the
\* timeout of its wait_for) leads to the head of the loop, not to the delay.
PublishEnds(r, how) == hist'.results[r] = Append(hist.results[r], how)

C29_WitnessNoTime ==
    /\ pc["A"] = "loop"
    /\ hist.results["A"] # << >>
    /\ hist.results["A"][Len(hist.results["A"])] = "true"
    /\ clock["A"].left # Untimed
    /\ clock["A"].left <= Sec(8)

\* ------------------------------------------------------------------ C30
\* C30: with time passing only in awaited steps and no awaited step
\* outlasting its timeout, a run never stops for 'no time for DB save' or
\* 'no time for Telegram', and every entry whose db.save gave True to main
\* is handed to _post_to_telegram in the same run: at any moment each such
\* entry has had its publish attempt, but for the one whose page fetch main
\* is awaiting.
C30_SavedIsAttempted ==
    \A r \in Runs :
        /\ hist.stop[r] \notin { "save_budget", "tg_budget" }
        /\ \A i \in hist.saveTrue[r] :
              \/ i \in Range(hist.attempts[r])
              \/ pc[r] = "images" /\ idx[r] = i

\* a publish attempt for a saved entry whose timeout is cut by the time
\* left: it is due with 3 s left
C30_Witness ==
    /\ pc["A"] \in TgAwaits
    /\ idx["A"] \in hist.saveTrue["A"]
    /\ clock["A"].due = Sec(3)

\* C31: a run never overruns its deadline.  With time passing only inside
\* the awaited steps, and each of them back by its timeout, what a run with
\* a clock has left of GLOBAL_DEADLINE_SEC is positive in every state from
\* its start to its return.
C31_DeadlineKept ==
    \A r \in Runs : clock[r].left # Untimed => clock[r].left > 0

\* the run has returned after a publish that took its whole timeout and
\* left the least a publish leaves, 3 s
C31_Witness ==
    /\ pc["A"] = "done"
    /\ hist.results["A"] # << >>
    /\ hist.results["A"][Len(hist.results["A"])] = "timeout"
    /\ clock["A"].left = Sec(3)

\* C32: counter accounting.  Every pass of the for loop that runs to its
\* end (a `continue` or the end of the body) adds one to exactly one of
\* skip_time, skip_filter, skip_dupe, errors and posted; so the five
\* counters always add up to the number of entries whose pass has ended,
\* which never exceeds entries_total.  A pass that ends in `break` counts
\* nothing.
PassCounters == { "skip_time", "skip_filter", "skip_dupe", "errors", "posted" }

Counted(r) ==
    stats[r].skip_time + stats[r].skip_filter + stats[r].skip_dupe
        + stats[r].errors + stats[r].posted

\* the entries whose pass has ended: all the loop has taken, less the one
\* whose pass is under way or was left by the break before the publish
PassesEnded(r) ==
    IF pc[r] \in { "save", "images" } \cup TgAwaits THEN idx[r] - 1
    ELSE IF pc[r] = "done" /\ hist.stop[r] = "tg_budget" THEN idx[r] - 1
    ELSE idx[r]

C32_CounterAccounting ==
    /\ [](\A r \in Runs :
            /\ Counted(r) = PassesEnded(r)
            /\ Counted(r) <= stats[r].entries_total)
    /\ [][stats' # stats => \A r \in Runs :
            \/ stats'[r] = stats[r]
            \/ /\ \A c \in PassCounters : stats'[r][c] - stats[r][c] \in { 0, 1 }
               /\ Cardinality({ c \in PassCounters : stats'[r][c] # stats[r][c] }) <= 1]_vars

\* a run has returned with every entry counted, one as posted and one as
\* an error
C32_Witness ==
    /\ pc["A"] = "done"
    /\ stats["A"].entries_total = 2
    /\ stats["A"].posted = 1
    /\ stats["A"].errors = 1

\* a run has returned from the break before the publish: the entry it had
\* saved is in no counter
C32_WitnessBreak ==
    /\ pc["A"] = "done"
    /\ hist.stop["A"] = "tg_budget"
    /\ idx["A"] = 2
    /\ Counted("A") = 1

\* C33: posted counts the delivered captions.  A publish attempt adds one
\* to posted, and nothing to errors, exactly when its caption send was
\* answered with success by the channel, also when the attempt is ended by
\* the per-publish timeout; posted changes at no other step.  So at the end
\* of a run posted is the number of entries whose caption was delivered.
CaptionDelivered(r) == \E k \in CallsOf(r, "caption") : Calls(r)[k].res = "ok"

C33_PostedCountsDelivered ==
    [][\A r \in Runs :
         IF Len(hist'.results[r]) = Len(hist.results[r]) + 1
         THEN IF CaptionDelivered(r)
              THEN /\ stats'[r].posted = stats[r].posted + 1
                   /\ stats'[r].errors = stats[r].errors
              ELSE stats'[r].posted = stats[r].posted
         ELSE stats'[r].posted = stats[r].posted]_vars

\* C34: no record without a publish attempt.  Once a run has returned,
\* every record of the store whose create it asked for belongs to an entry
\* it handed to the publisher, also when the wait_for around db.save timed
\* out and the request was served later.  (The runs looked at are the only
\* ones that ask for creates, and those that did not leave the loop for
\* want of time between the save and the publish.)
AskedFor(r, rec) == \E i \in Range(hist.saveCalls[r]) : TH(r, i) = rec.title_hash

C34_RecordsWereAttempted ==
    \A r \in Runs :
        pc[r] = "done" /\ hist.stop[r] # "tg_budget" =>
          \A rec \in records :
              AskedFor(r, rec) => rec.title_hash \in HashesAt(r, Range(hist.attempts[r]))

====
